---- MODULE Spec2Model ----
(***************************************************************************)
(* A model of images_to_pdf.py: the brightness/contrast transform          *)
(* (apply_brightness_contrast) and the conversion pipeline of main():      *)
(* check_valid_args, convert_imgs, imgs_to_pdf, delete_temp_imgs, with the *)
(* filesystem entries they read and write.                                 *)
(*                                                                         *)
(* Strings are sequences of tokens.  A console answer is a sequence of     *)
(* single characters; a file name is a sequence of name parts whose last   *)
(* part may be a suffix such as ".png".                                    *)
(***************************************************************************)
EXTENDS Integers, Sequences, FiniteSets, TLC

VARIABLES
    inputKind,      \* what is at imgs_path: "absent", "file" or "dir"
    inputDir,       \* names of the entries of imgs_path (other than the scratch entry)
    scratchKind,    \* what is at imgs_path/.images_to_pdf_temp: "absent", "file", "dir"
    scratchFiles,   \* scratch file name -> [run, src]: who wrote it, from which entry
    outFiles,       \* existing output-side path -> [run, pages]
    output_path,    \* the -o argument (NoPath when not given)
    brightness,     \* the -b argument
    contrast,       \* the -c argument
    run,            \* number of the current invocation of main
    pc,             \* where the current invocation stands
    user_cont,      \* the local user_cont of the running confirmation loop
    todo,           \* entries of input_dir.iterdir() not yet visited by convert_imgs
    imgs_paths,     \* the list imgs_to_pdf handed to img2pdf.convert
    pending,        \* the exception in flight through main's finally ("None" if none)
    exitStatus,     \* how the invocation ended: "None", "0", "ValueError", "Error"
    hist,           \* what the invocation has done so far (record of flags)
    fsAtStart,      \* the filesystem as it was when the invocation started
    tone            \* one call of the transform: [img, done, res]

vars == << inputKind, inputDir, scratchKind, scratchFiles, outFiles, output_path,
           brightness, contrast, run, pc, user_cont, todo, imgs_paths, pending,
           exitStatus, hist, fsAtStart, tone >>

----------------------------------------------------------------------------
(* Bounds of the model *)

\* invocations of main on the same directory
MaxRuns == 2
\* entries in the input directory at the start
MaxEntries == 2
\* samples in one pixel buffer
MaxPixels == 1

----------------------------------------------------------------------------
(* Python string methods used by the confirmation loops *)

\* what the user may type at a prompt: the empty line, y and n in both cases
\* and padded with blanks, and lines that are neither
Answers ==
    { << >>, <<"y">>, <<"Y">>, <<"n">>, <<"N">>,
      <<"y", " ">>, <<" ", "Y">>, <<" ", "n">>, <<"N", " ">>,
      <<" ">>, <<"x">>, <<"y", "n">>, <<"n", "o">> }

LowerChar(c) == CASE c = "Y" -> "y" [] c = "N" -> "n" [] OTHER -> c

\* str.lower()
Lower(s) == [i \in 1..Len(s) |-> LowerChar(s[i])]

RECURSIVE LStrip(_)
LStrip(s) == IF s # << >> /\ Head(s) = " " THEN LStrip(Tail(s)) ELSE s

RECURSIVE RStrip(_)
RStrip(s) ==
    IF s # << >> /\ s[Len(s)] = " " THEN RStrip(SubSeq(s, 1, Len(s) - 1)) ELSE s

\* str.strip()
Strip(s) == RStrip(LStrip(s))

\* the comparison without lower(): only a small n cancels
IsNoCaseSensitive(s) == Strip(s) = <<"n">>

\* the condition of "if user_cont.lower().strip() == 'n'" (lines 116, 162)
IsNo(s) == Strip(Lower(s)) = <<"n">>

\* the loop condition with the answer stripped before the test for empty
AsksAgainStripsEmpty(s) ==
    /\ Strip(Lower(s)) # <<"y">>
    /\ Strip(Lower(s)) # <<"n">>
    /\ Strip(s) # << >>

\* the condition of the while loops (lines 108-112, 154-158)
AsksAgain(s) ==
    /\ Strip(Lower(s)) # <<"y">>
    /\ Strip(Lower(s)) # <<"n">>
    /\ s # << >>

----------------------------------------------------------------------------
(* apply_brightness_contrast *)

Min(a, b) == IF a < b THEN a ELSE b
Max(a, b) == IF a > b THEN a ELSE b

\* the largest 8-bit sample (lines 31, 34, 35)
MaxSample == 255
\* the constants of the contrast formula (line 43)
ContrastPivot == 131
ContrastMid == 127

Samples == {0, 100, MaxSample}

Buffers == UNION { [1..n -> Samples] : n \in 1..MaxPixels }

\* num/den (den > 0) rounded to the nearest integer, ties to the even one,
\* as cvRound does
RoundHalfEven(num, den) ==
    LET q == num \div den
        r == num - q * den
    IN  IF 2 * r < den THEN q
        ELSE IF 2 * r > den THEN q + 1
        ELSE IF q % 2 = 0 THEN q ELSE q + 1

\* saturate_cast<uchar>
Saturate(x) == Max(0, Min(MaxSample, x))

\* cv2.addWeighted(buf, alpha, buf, 0, gamma) with alpha = an/ad and
\* gamma = gn/ad given as exact fractions over a common denominator ad # 0
\* (the arithmetic is exact here, in floating point in OpenCV: the two can
\* differ by one only where buf*alpha + gamma lies at a rounding tie)
AddWeighted(buf, an, gn, ad) ==
    LET sgn == IF ad < 0 THEN -1 ELSE 1
    IN  [i \in 1..Len(buf) |->
            Saturate(RoundHalfEven(sgn * (buf[i] * an + gn), sgn * ad))]

BrightnessStep(img, b) ==
    IF b # 0
    THEN LET shadow == IF b > 0 THEN b ELSE 0
             highlight == IF b > 0 THEN MaxSample ELSE MaxSample + b
         IN  AddWeighted(img, highlight - shadow, MaxSample * shadow, MaxSample)
    ELSE img

\* numerator and denominator of f = 131*(contrast+127) / (127*(131-contrast))
FNum(c) == ContrastPivot * (c + ContrastMid)
FDen(c) == ContrastMid * (ContrastPivot - c)

\* [exc, buf]: the returned buffer, or the exception raised where line 43
\* divides by zero
apply_brightness_contrast(img, b, c) ==
    LET buf == BrightnessStep(img, b)
    IN  IF c # 0
        THEN IF FDen(c) = 0
             THEN [exc |-> "ZeroDivisionError", buf |-> << >>]
             ELSE [exc |-> "None",
                   buf |-> AddWeighted(buf, FNum(c),
                                       ContrastMid * (FDen(c) - FNum(c)), FDen(c))]
        ELSE [exc |-> "None", buf |-> buf]

----------------------------------------------------------------------------
(* Paths and file names *)

\* argparse leaves output_path None when -o is not given
NoPath == << >>

\* imgs_path / "combined_imgs.pdf" (line 205)
DefaultOutputPath == <<"combined_imgs", ".pdf">>

\* the -o arguments tried
UserPaths == { <<"out", ".pdf">>, <<"out", ".txt">> }

Suffixes == {".pdf", ".txt", ".png", ".jpg", ".PNG"}

\* the names an input directory entry may have
InputNames ==
    { <<"a", ".png">>, <<"a", ".jpg">>, <<"b", ".png">>, <<"c", ".txt">>,
      <<"a", ".PNG">> }

\* Path.with_suffix(".pdf"): the last suffix replaced, or ".pdf" appended
WithSuffixPdf(p) ==
    IF Len(p) > 1 /\ p[Len(p)] \in Suffixes
    THEN SubSeq(p, 1, Len(p) - 1) \o <<".pdf">>
    ELSE p \o <<".pdf">>

get_output_path(p) == WithSuffixPdf(p)

\* re.search("(.*)(\.png|\.jpg)$", name): [found, name], name being group(1)
get_img_name(n) ==
    IF n # << >> /\ n[Len(n)] \in {".png", ".jpg"}
    THEN [found |-> TRUE, name |-> SubSeq(n, 1, Len(n) - 1)]
    ELSE [found |-> FALSE, name |-> << >>]

\* the default of convert_imgs' temp_suffix parameter (line 86)
temp_suffix == "__temp"

\* img_name + temp_suffix + ".jpg" (line 131)
TempFileName(img_name) == img_name \o <<temp_suffix, ".jpg">>

\* the pixel buffer cv2.imread yields for a readable image
LoadedImg == <<100>>

----------------------------------------------------------------------------
(* The filesystem *)

\* the effective output_path of main after line 205
EffectiveOutputPath == IF output_path = NoPath THEN DefaultOutputPath ELSE output_path

\* Path.exists()
Exists(p) == \E f \in outFiles : f.path = p

ScratchNames == { f.name : f \in scratchFiles }

ScratchFile(n) == CHOOSE f \in scratchFiles : f.name = n

\* cv2.imwrite: the file is created, or replaced when it is there already
WriteScratch(files, n, r, src) ==
    { f \in files : f.name # n } \cup { [name |-> n, run |-> r, src |-> src] }

\* open(path, "wb") and write
WriteOut(files, p, r, pages) ==
    { f \in files : f.path # p } \cup { [path |-> p, run |-> r, pages |-> pages] }

FileSystem ==
    [ inputKind |-> inputKind, inputDir |-> inputDir, scratchKind |-> scratchKind,
      scratchFiles |-> scratchFiles, outFiles |-> outFiles ]

\* the orders in which iterdir may list a set of names
Orders(S) ==
    { p \in [1..Cardinality(S) -> S] : \A i, j \in 1..Cardinality(S) : p[i] = p[j] => i = j }

NoHist ==
    [ outPrompted |-> NoPath, outConfirmed |-> FALSE,
      scratchPrompted |-> FALSE, scratchConfirmed |-> FALSE,
      cancelled |-> "None", validated |-> FALSE, scratchReady |-> FALSE,
      convertReturned |-> FALSE, convertRaised |-> FALSE,
      assembleCalled |-> FALSE, assembleRaised |-> FALSE,
      cleanupCalled |-> FALSE, wrote |-> NoPath, overwrote |-> FALSE ]

NoTone == [img |-> << >>, done |-> FALSE, res |-> [exc |-> "None", buf |-> << >>]]

\* the arguments -b and -c tried by the pipeline
PipelineToneArgs == { <<0, 0>>, <<50, ContrastPivot>> }

Init ==
    /\ inputKind \in {"absent", "file", "dir"}
    /\ inputDir \in { S \in SUBSET InputNames : Cardinality(S) <= MaxEntries }
    /\ inputKind # "dir" => inputDir = {}
    /\ scratchKind \in {"absent", "file", "dir"}
    /\ inputKind # "dir" => scratchKind = "absent"
    /\ scratchFiles = {}
    /\ output_path \in {NoPath} \cup UserPaths
    /\ \E E \in SUBSET {EffectiveOutputPath, get_output_path(EffectiveOutputPath)} :
          /\ inputKind # "dir" => DefaultOutputPath \notin E
          /\ outFiles = { [path |-> p, run |-> 0, pages |-> << >>] : p \in E }
    /\ \E a \in PipelineToneArgs : brightness = a[1] /\ contrast = a[2]
    /\ run = 1
    /\ pc = "main"
    /\ user_cont = << >>
    /\ todo = {}
    /\ imgs_paths = << >>
    /\ pending = "None"
    /\ exitStatus = "None"
    /\ hist = NoHist
    /\ fsAtStart = FileSystem
    /\ tone = NoTone

----------------------------------------------------------------------------
(* main, one invocation: lines 204-219 *)

fsVars == << inputKind, inputDir, scratchKind, scratchFiles, outFiles >>
argVars == << output_path, brightness, contrast >>

\* the check with only the test of line 169: a path that exists passes
InputPathCheckExistsOnly(h) ==
    IF inputKind = "absent"
    THEN /\ pc' = "done"
         /\ exitStatus' = "ValueError"
         /\ hist' = h
    ELSE /\ pc' = "convert"
         /\ exitStatus' = exitStatus
         /\ hist' = [h EXCEPT !.validated = TRUE]

\* lines 166-170 of check_valid_args: the input path is checked last
InputPathCheck(h) ==
    IF inputKind # "dir"
    THEN /\ pc' = "done"
         /\ exitStatus' = "ValueError"
         /\ hist' = h
    ELSE /\ pc' = "convert"
         /\ exitStatus' = exitStatus
         /\ hist' = [h EXCEPT !.validated = TRUE]

\* check_valid_args up to its first input() (lines 151-159), or to its end
\* when the output path does not exist
CheckValidArgs ==
    /\ pc = "main"
    /\ IF Exists(EffectiveOutputPath)
       THEN /\ pc' = "out_prompt"
            /\ user_cont' = <<"_">>
            /\ hist' = [hist EXCEPT !.outPrompted = EffectiveOutputPath]
            /\ exitStatus' = exitStatus
       ELSE /\ InputPathCheck(hist)
            /\ user_cont' = user_cont
    /\ UNCHANGED << fsVars, argVars, run, todo, imgs_paths, pending, fsAtStart, tone >>

\* input() of line 159 returns what the user typed
OutputPromptInput ==
    /\ pc = "out_prompt"
    /\ \E a \in Answers : user_cont' = a
    /\ pc' = "out_answered"
    /\ UNCHANGED << fsVars, argVars, run, todo, imgs_paths, pending, exitStatus,
                    hist, fsAtStart, tone >>

\* lines 162-164, then the loop condition of lines 154-158, then lines 166-170
OutputPromptCheck ==
    /\ pc = "out_answered"
    /\ IF IsNo(user_cont)
       THEN /\ pc' = "done"
            /\ exitStatus' = "0"
            /\ hist' = [hist EXCEPT !.cancelled = "output"]
            /\ user_cont' = << >>
       ELSE IF AsksAgain(user_cont)
       THEN /\ pc' = "out_prompt"
            /\ UNCHANGED << exitStatus, hist, user_cont >>
       ELSE /\ InputPathCheck([hist EXCEPT !.outConfirmed = TRUE])
            /\ user_cont' = << >>
    /\ UNCHANGED << fsVars, argVars, run, todo, imgs_paths, pending, fsAtStart, tone >>

\* convert_imgs, lines 101-107: mkdir(parents=True, exist_ok=True) succeeds when
\* the path is absent or a directory, and raises FileExistsError when it is a file
ConvertMkdir ==
    /\ pc = "convert"
    /\ IF scratchKind = "file"
       THEN /\ pc' = "scratch_prompt"
            /\ user_cont' = <<"_">>
            /\ hist' = [hist EXCEPT !.scratchPrompted = TRUE]
            /\ UNCHANGED << scratchKind, todo >>
       ELSE /\ scratchKind' = "dir"
            /\ pc' = "loop"
            /\ todo' = inputDir
            /\ hist' = [hist EXCEPT !.scratchReady = TRUE]
            /\ user_cont' = user_cont
    /\ UNCHANGED << inputKind, inputDir, scratchFiles, outFiles, argVars, run,
                    imgs_paths, pending, exitStatus, fsAtStart, tone >>

\* input() of line 113 returns what the user typed
ScratchPromptInput ==
    /\ pc = "scratch_prompt"
    /\ \E a \in Answers : user_cont' = a
    /\ pc' = "scratch_answered"
    /\ UNCHANGED << fsVars, argVars, run, todo, imgs_paths, pending, exitStatus,
                    hist, fsAtStart, tone >>

\* lines 116-118, then the loop condition of lines 108-112, then lines 120-121
ScratchPromptCheck ==
    /\ pc = "scratch_answered"
    /\ IF IsNo(user_cont)
       THEN /\ pc' = "done"
            /\ exitStatus' = "0"
            /\ hist' = [hist EXCEPT !.cancelled = "scratch"]
            /\ user_cont' = << >>
            /\ UNCHANGED << scratchKind, scratchFiles, todo >>
       ELSE IF AsksAgain(user_cont)
       THEN /\ pc' = "scratch_prompt"
            /\ UNCHANGED << exitStatus, hist, user_cont, scratchKind, scratchFiles, todo >>
       ELSE /\ scratchKind' = "dir"
            /\ scratchFiles' = {}
            /\ pc' = "loop"
            /\ todo' = inputDir
            /\ hist' = [hist EXCEPT !.scratchConfirmed = TRUE, !.scratchReady = TRUE]
            /\ user_cont' = << >>
            /\ exitStatus' = exitStatus
    /\ UNCHANGED << inputKind, inputDir, outFiles, argVars, run, imgs_paths, pending,
                    fsAtStart, tone >>

\* one iteration of the loop of lines 123-134 on entry e; loaded tells whether
\* cv2.imread could read it.  An exception leaves convert_imgs and main at once:
\* line 215 is outside the try of line 216.
ConvertImg ==
    /\ pc = "loop"
    /\ \E e \in todo, loaded \in BOOLEAN :
          LET img_name == get_img_name(e)
              transformed == apply_brightness_contrast(LoadedImg, brightness, contrast)
          IN  IF ~img_name.found
              THEN /\ loaded
                   /\ todo' = todo \ {e}
                   /\ UNCHANGED << scratchFiles, pc, exitStatus, hist >>
              ELSE IF ~loaded \/ transformed.exc # "None"
              THEN /\ pc' = "done"
                   /\ exitStatus' = "Error"
                   /\ hist' = [hist EXCEPT !.convertRaised = TRUE]
                   /\ UNCHANGED << scratchFiles, todo >>
              ELSE /\ scratchFiles' =
                          WriteScratch(scratchFiles, TempFileName(img_name.name), run, e)
                   /\ todo' = todo \ {e}
                   /\ UNCHANGED << pc, exitStatus, hist >>
    /\ UNCHANGED << inputKind, inputDir, scratchKind, outFiles, argVars, run, user_cont,
                    imgs_paths, pending, fsAtStart, tone >>

\* line 136: the loop is over and convert_imgs returns; main enters its try
ConvertReturn ==
    /\ pc = "loop"
    /\ todo = {}
    /\ pc' = "assemble"
    /\ hist' = [hist EXCEPT !.convertReturned = TRUE]
    /\ UNCHANGED << fsVars, argVars, run, user_cont, todo, imgs_paths, pending,
                    exitStatus, fsAtStart, tone >>

\* the path imgs_to_pdf is called with (line 217)
WrittenPath == get_output_path(EffectiveOutputPath)

\* imgs_to_pdf, lines 139-144: the scratch directory is listed in some order;
\* ok tells whether img2pdf.convert and the write succeeded (img2pdf.convert
\* has no page to make from an empty list, and raises)
ImgsToPdf ==
    /\ pc = "assemble"
    /\ \E order \in Orders(ScratchNames), ok \in BOOLEAN :
          /\ ok => order # << >>
          /\ imgs_paths' = order
          /\ IF ok
             THEN /\ outFiles' =
                        WriteOut(outFiles, WrittenPath, run,
                                 [i \in 1..Len(order) |->
                                     [src |-> ScratchFile(order[i]).src,
                                      run |-> ScratchFile(order[i]).run]])
                  /\ hist' = [hist EXCEPT !.assembleCalled = TRUE,
                                          !.wrote = WrittenPath,
                                          !.overwrote = Exists(WrittenPath)]
                  /\ pending' = "None"
             ELSE /\ outFiles' = outFiles
                  /\ hist' = [hist EXCEPT !.assembleCalled = TRUE,
                                          !.assembleRaised = TRUE]
                  /\ pending' = "Error"
    /\ pc' = "cleanup"
    /\ UNCHANGED << inputKind, inputDir, scratchKind, scratchFiles, argVars, run,
                    user_cont, todo, exitStatus, fsAtStart, tone >>

\* cleanup placed after the call instead of in a finally clause
RunsCleanupUnlessRaised == pending = "None"

\* whether delete_temp_imgs is called when the try block of lines 216-217 is
\* left: it is in the finally clause, so always
RunsCleanup == TRUE

\* delete_temp_imgs (lines 147-148), called from the finally clause of lines 218-219

delete_temp_imgs ==
    /\ pc = "cleanup"
    /\ IF RunsCleanup
       THEN /\ scratchKind' = "absent"
            /\ scratchFiles' = {}
            /\ hist' = [hist EXCEPT !.cleanupCalled = TRUE]
       ELSE UNCHANGED << scratchKind, scratchFiles, hist >>
    /\ pc' = "exit"
    /\ UNCHANGED << inputKind, inputDir, outFiles, argVars, run, user_cont, todo,
                    imgs_paths, pending, exitStatus, fsAtStart, tone >>

\* the finally clause is over: the exception in flight leaves main, or main returns
MainExit ==
    /\ pc = "exit"
    /\ pc' = "done"
    /\ exitStatus' = IF pending = "None" THEN "0" ELSE pending
    /\ UNCHANGED << fsVars, argVars, run, user_cont, todo, imgs_paths, pending,
                    hist, fsAtStart, tone >>

\* between two invocations the user removes an entry of the input directory
EnvRemoveInput ==
    /\ pc \in {"done", "idle"}
    /\ run < MaxRuns
    /\ \E e \in inputDir : inputDir' = inputDir \ {e}
    /\ pc' = "idle"
    /\ UNCHANGED << inputKind, scratchKind, scratchFiles, outFiles, argVars, run,
                    user_cont, todo, imgs_paths, pending, exitStatus, hist,
                    fsAtStart, tone >>

\* lines 222-223: the script is invoked again with the same arguments
NewRun ==
    /\ pc \in {"done", "idle"}
    /\ run < MaxRuns
    /\ run' = run + 1
    /\ pc' = "main"
    /\ user_cont' = << >>
    /\ todo' = {}
    /\ imgs_paths' = << >>
    /\ pending' = "None"
    /\ exitStatus' = "None"
    /\ hist' = NoHist
    /\ fsAtStart' = FileSystem
    /\ UNCHANGED << fsVars, argVars, tone >>

Next ==
    \/ CheckValidArgs
    \/ OutputPromptInput
    \/ OutputPromptCheck
    \/ ConvertMkdir
    \/ ScratchPromptInput
    \/ ScratchPromptCheck
    \/ ConvertImg
    \/ ConvertReturn
    \/ ImgsToPdf
    \/ delete_temp_imgs
    \/ MainExit
    \/ EnvRemoveInput
    \/ NewRun

Spec == Init /\ [][Next]_vars

----------------------------------------------------------------------------
(* apply_brightness_contrast on its own: every brightness and contrast of the *)
(* contract range, on small buffers                                          *)

ToneRange == (0 - MaxSample)..MaxSample

ToneInit ==
    /\ inputKind = "absent"
    /\ inputDir = {}
    /\ scratchKind = "absent"
    /\ scratchFiles = {}
    /\ outFiles = {}
    /\ output_path = NoPath
    /\ brightness \in ToneRange
    /\ contrast \in ToneRange
    /\ run = 1
    /\ pc = "tone"
    /\ user_cont = << >>
    /\ todo = {}
    /\ imgs_paths = << >>
    /\ pending = "None"
    /\ exitStatus = "None"
    /\ hist = NoHist
    /\ fsAtStart = FileSystem
    /\ \E img \in Buffers : tone = [NoTone EXCEPT !.img = img]

\* line 129: transformed_img = apply_brightness_contrast(img, brightness, contrast)
ApplyTone ==
    /\ pc = "tone"
    /\ ~tone.done
    /\ tone' = [tone EXCEPT !.done = TRUE,
                            !.res = apply_brightness_contrast(tone.img, brightness, contrast)]
    /\ UNCHANGED << fsVars, argVars, run, pc, user_cont, todo, imgs_paths, pending,
                    exitStatus, hist, fsAtStart >>

ToneNext == ApplyTone

ToneSpec == ToneInit /\ [][ToneNext]_vars

----------------------------------------------------------------------------
(* The claims *)

Terminated == pc \in {"done"}

ValidInputs == { e \in inputDir : get_img_name(e).found }

\* an answer that is the letter yn, in either case, with blanks around it
IsLetter(a, lower, upper) ==
    \E i \in 1..Len(a) :
        /\ a[i] \in {lower, upper}
        /\ \A j \in 1..Len(a) : j # i => a[j] = " "

AtAnswer == pc \in {"out_answered", "scratch_answered"}

PromptOf(p) == IF p = "out_answered" THEN "out_prompt" ELSE "scratch_prompt"

\* the step taken is the answered prompt letting the run proceed
Proceeds ==
    IF pc = "out_answered"
    THEN /\ ~hist.outConfirmed /\ hist'.outConfirmed
         /\ pc' \in {"convert", "done"}
         /\ hist'.cancelled = "None"
    ELSE /\ ~hist.scratchConfirmed /\ hist'.scratchConfirmed
         /\ pc' = "loop"
         /\ scratchKind' = "dir" /\ scratchFiles' = {}

\* the step taken is the answered prompt ending the program as cancelled
Aborts ==
    /\ pc' = "done"
    /\ exitStatus' = "0"
    /\ hist'.cancelled = (IF pc = "out_answered" THEN "output" ELSE "scratch")

\* the step taken shows the same prompt again and changes nothing else
AsksAgainStep ==
    /\ pc' = PromptOf(pc)
    /\ FileSystem' = FileSystem
    /\ hist' = hist
    /\ exitStatus' = exitStatus

\* C1: in a run that reached imgs_to_pdf, delete_temp_imgs has run by the time
\* main is left, whether imgs_to_pdf returned or raised: the scratch directory
\* is gone when the run has terminated, and an error of imgs_to_pdf has ended
\* the run (as that error) only after the cleanup.
C1_CleanupAfterAssemble ==
    /\ (hist.assembleCalled /\ pc \in {"exit", "done"}) =>
          (hist.cleanupCalled /\ scratchKind = "absent" /\ scratchFiles = {})
    /\ (hist.assembleCalled /\ exitStatus # "None") => hist.cleanupCalled
    /\ (hist.assembleRaised /\ Terminated) => exitStatus = "Error"
    /\ (hist.assembleCalled /\ ~hist.assembleRaised /\ Terminated) => exitStatus = "0"

C1_Witness ==
    /\ Terminated
    /\ hist.assembleRaised
    /\ hist.cleanupCalled
    /\ fsAtStart.scratchKind = "absent"
    /\ scratchKind = "absent"
    /\ exitStatus = "Error"

\* C2: a file that already existed at the path imgs_to_pdf wrote was written
\* only if the user was prompted about that path in this run and accepted.
C2_OverwriteOnlyAfterConfirm ==
    hist.overwrote => (hist.outPrompted = hist.wrote /\ hist.outConfirmed)

\* C3: when convert_imgs raised after the scratch directory was there, the
\* scratch directory does not exist once the program has terminated.
C3_CleanupAfterConvertFailure ==
    (Terminated /\ hist.convertRaised /\ hist.scratchReady) => scratchKind = "absent"

\* C4: when convert_imgs starts with an entry at the scratch path, file or
\* directory, the user has been prompted and has accepted before the loop over
\* the images runs, and the directory then holds nothing older than this run.
C4_PromptOnExistingScratch ==
    (hist.scratchReady /\ fsAtStart.scratchKind # "absent") =>
        /\ hist.scratchPrompted
        /\ hist.scratchConfirmed
        /\ \A f \in scratchFiles : f.run = run

\* C5: after a run that started with no scratch entry, when convert_imgs has
\* returned, the scratch files are one-to-one with the valid input images:
\* each valid entry has its own file <basename>__temp.jpg written from it,
\* and there are exactly as many files as valid entries.
C5_ScratchOneToOne ==
    (pc = "assemble" /\ fsAtStart.scratchKind = "absent") =>
        /\ \A e \in ValidInputs :
              \E f \in scratchFiles :
                  f.name = TempFileName(get_img_name(e).name) /\ f.src = e
        /\ \A f \in scratchFiles : f.src \in ValidInputs
        /\ Cardinality(scratchFiles) = Cardinality(ValidInputs)

\* C6 (as claimed): a run whose input path is absent or not a directory ends
\* with the invalid-input error and an unchanged filesystem, whatever is
\* answered at a prompt.
C6_InvalidInputAlwaysError ==
    (Terminated /\ fsAtStart.inputKind # "dir") =>
        (exitStatus = "ValueError" /\ FileSystem = fsAtStart)

\* C6 (amended): a run whose input path is absent or not a directory ends with
\* an unchanged filesystem, and with the invalid-input error unless the user
\* answered n at the output prompt, in which case it ends cancelled, status 0.
C6_InvalidInputErrorUnlessCancelled ==
    (Terminated /\ fsAtStart.inputKind # "dir") =>
        /\ FileSystem = fsAtStart
        /\ hist.cancelled \in {"None", "output"}
        /\ hist.cancelled = "None" => exitStatus = "ValueError"
        /\ hist.cancelled = "output" => exitStatus = "0"

C6_Witness ==
    /\ Terminated
    /\ fsAtStart.inputKind = "file"
    /\ hist.outPrompted # NoPath
    /\ hist.outConfirmed
    /\ exitStatus = "ValueError"

\* C7: an answer n or N at either prompt ends the program at once with status
\* 0, with nothing written and the filesystem as it was when the run started.
C7_CancelIsClean ==
    [][(AtAnswer /\ user_cont \in {<<"n">>, <<"N">>}) =>
          /\ pc' = "done"
          /\ exitStatus' = "0"
          /\ hist'.cancelled # "None"
          /\ hist'.wrote = NoPath
          /\ ~hist'.assembleCalled
          /\ FileSystem' = fsAtStart]_vars

C7_Witness ==
    /\ Terminated
    /\ hist.cancelled = "scratch"
    /\ fsAtStart.scratchKind = "file"
    /\ scratchKind = "file"
    /\ exitStatus = "0"

\* C8 (as claimed): the run proceeds exactly on an answer that is y, Y or
\* empty, aborts exactly on an answer that is n or N, and on every other answer
\* shows the same prompt again with nothing changed; a prompt once passed is
\* not shown again in the run.
C8_PromptExactAnswers ==
    [][/\ AtAnswer =>
             /\ Proceeds <=> user_cont \in {<<"y">>, <<"Y">>, << >>}
             /\ Aborts <=> user_cont \in {<<"n">>, <<"N">>}
             /\ (~Proceeds /\ ~Aborts) => AsksAgainStep
       /\ (hist.outConfirmed /\ run' = run) => pc' # "out_prompt"
       /\ (hist.scratchConfirmed /\ run' = run) => pc' # "scratch_prompt"]_vars

\* C8 (amended): as claimed, with y and n recognised in either case and with
\* blanks around them, and empty meaning the empty line only.
C8_PromptStrippedAnswers ==
    [][/\ AtAnswer =>
             /\ Proceeds <=> (IsLetter(user_cont, "y", "Y") \/ user_cont = << >>)
             /\ Aborts <=> IsLetter(user_cont, "n", "N")
             /\ (~Proceeds /\ ~Aborts) => AsksAgainStep
       /\ (hist.outConfirmed /\ run' = run) => pc' # "out_prompt"
       /\ (hist.scratchConfirmed /\ run' = run) => pc' # "scratch_prompt"]_vars

C8_Witness ==
    /\ pc = "loop"
    /\ hist.outConfirmed
    /\ hist.scratchConfirmed
    /\ fsAtStart.scratchKind = "file"

\* C9: for every brightness and contrast in [-255,255] the transform returns,
\* without raising, a buffer of the shape of its input with samples in [0,255].
C9_ToneTotal ==
    tone.done =>
        /\ tone.res.exc = "None"
        /\ Len(tone.res.buf) = Len(tone.img)
        /\ \A i \in 1..Len(tone.res.buf) : tone.res.buf[i] \in 0..MaxSample

\* C10: the files a run hands to img2pdf.convert were all written by that run,
\* from entries the input directory holds during that run.
C10_NoStalePages ==
    pc = "cleanup" =>
        \A i \in 1..Len(imgs_paths) :
            /\ ScratchFile(imgs_paths[i]).run = run
            /\ ScratchFile(imgs_paths[i]).src \in inputDir

====
